---- MODULE Spec2Model ----
(***************************************************************************)
(* Authentication / session lifecycle of iris-api: login with the failed-  *)
(* login guard, the two refresh endpoints, logout with the token           *)
(* blacklist.  Time is in whole minutes.                                   *)
(***************************************************************************)
EXTENDS Integers, Sequences, FiniteSets, TLC

VARIABLES now, users, blacklist, held, resp, streak, procs, reset

vars == <<now, users, blacklist, held, resp, streak, procs, reset>>

\* ------------------------------------------------------------------ bounds
MaxTime == 20
TickMinutes == 5
MaxLongTime == 70
LongTickMinutes == 16
MaxAttempts == 7
MaxHeld == 2
NProcs == 2
AccessExpireMinutes == 5
RefreshExpireMinutes == 10

\* ------------------------------------------------------- program constants
Threshold == 5
WindowMinutes == 15
LockDurationMinutes == 30

NoTime == -1
NoUser == 0
NoSub == ""

UserIds == {100, 101}
EmailOf == (100 :> "alice@iris.io") @@ (101 :> "bob@iris.io")
PasswordOf == (100 :> "S3cret!1") @@ (101 :> "hunter22")
Passwords == {"S3cret!1", "hunter22"}

\* str(user.id) and int(sub): the decimal text of an id and its parse.
\* int() of text that is no decimal number raises ValueError (NoUser here).
StrOfId(id) == ToString(id)

IntOfSub(sub) ==
    IF \E id \in UserIds : StrOfId(id) = sub
    THEN CHOOSE id \in UserIds : StrOfId(id) = sub
    ELSE NoUser

IsDecimal(sub) == sub \in {"100", "101"}

\* ------------------------------------------------------------------ tokens
\* A JWT is its signed payload: equal payloads are the same token string.
\* type is "refresh", "access" or "" (the payload has no type claim).
Token(sub, type, iat, exp) == [sub |-> sub, type |-> type, iat |-> iat, exp |-> exp]

NoToken == Token(NoSub, "", NoTime, NoTime)

JwtDecodes_ignores_exp(tok, t) == tok # NoToken

\* jose.jwt.decode: the signature was checked when the token entered held
\* (only issued tokens are held); exp in the past raises ExpiredSignatureError.
JwtDecodes(tok, t) == tok # NoToken /\ tok.exp >= t

create_access_token(u, t) ==
    Token(StrOfId(u), "", t, t + AccessExpireMinutes)

create_refresh_token(u, t) ==
    Token(StrOfId(u), "refresh", t, t + RefreshExpireMinutes)

\* ------------------------------------------------------------ credential store
FirstOf(S) == IF S = {} THEN NoUser ELSE CHOOSE u \in S : \A v \in S : u <= v

UserByUsername(us, name) ==
    FirstOf({u \in UserIds : us[u].exists /\ us[u].username = name})

UserByUsernameOrEmail(us, ident) ==
    FirstOf({u \in UserIds : us[u].exists
                 /\ (us[u].username = ident \/ us[u].email = ident)})

UserById(us, id) ==
    FirstOf({u \in UserIds : us[u].exists /\ u = id})

\* ------------------------------------------------------------ login service
validate_login_attempt_nowindow(us, username, t) ==
    ~ \E u \in UserIds :
        /\ us[u].exists
        /\ us[u].username = username
        /\ us[u].failed_login_attempts >= Threshold
        /\ us[u].last_failed_login # NoTime

validate_login_attempt_early(us, username, t) ==
    ~ \E u \in UserIds :
        /\ us[u].exists
        /\ us[u].username = username
        /\ us[u].failed_login_attempts >= Threshold - 1
        /\ us[u].last_failed_login # NoTime
        /\ us[u].last_failed_login > t - WindowMinutes

validate_login_attempt(us, username, t) ==
    ~ \E u \in UserIds :
        /\ us[u].exists
        /\ us[u].username = username
        /\ us[u].failed_login_attempts >= Threshold
        /\ us[u].last_failed_login # NoTime
        /\ us[u].last_failed_login > t - WindowMinutes

verify_password(plain, u) == plain = PasswordOf[u]

\* the user authenticate_user returns, NoUser for None
authenticate_user(us, ident, password) ==
    LET u == UserByUsernameOrEmail(us, ident)
    IN  IF u = NoUser \/ ~us[u].is_active THEN NoUser
        ELSE IF ~verify_password(password, u) THEN NoUser
        ELSE u

record_failed_login_stamp_only(us, username, t) ==
    LET u == UserByUsername(us, username)
    IN  IF u = NoUser THEN us
        ELSE [us EXCEPT ![u].last_failed_login = t]

record_failed_login(us, username, t) ==
    LET u == UserByUsername(us, username)
    IN  IF u = NoUser THEN us
        ELSE [us EXCEPT ![u].failed_login_attempts = @ + 1,
                        ![u].last_failed_login = t]

reset_failed_login_attempts(us, u) ==
    [us EXCEPT ![u].failed_login_attempts = 0,
               ![u].last_failed_login = NoTime]

\* ------------------------------------------------------------------ user model
\* User.lock_account(duration_minutes=30)
lock_account(us, u, t) ==
    [us EXCEPT ![u].locked_until = t + LockDurationMinutes,
               ![u].failed_login_attempts = 0]

unlock_account_keeps_count(us, u) ==
    [us EXCEPT ![u].locked_until = NoTime]

\* User.unlock_account
unlock_account(us, u) ==
    [us EXCEPT ![u].locked_until = NoTime,
               ![u].failed_login_attempts = 0]

\* User.is_locked: locked_until is set and lies in the future
is_locked(us, u, t) == us[u].locked_until # NoTime /\ t < us[u].locked_until

\* ------------------------------------------------------------------ responses
\* the last call and its answer: op, the identifier or token presented, the
\* HTTP status (a service call: 200 for True, 400 for False), the account the
\* call acted for, the access token the call returned, the branch of the
\* handler that answered, and the detail of the HTTPException it raised
Detail_by_branch(op, status, path) ==
    IF op = "login" /\ status = 429
    THEN "Too many failed login attempts. Please try again later."
    ELSE IF op = "login" /\ status = 401
    THEN IF path = "lookup" THEN "Unknown or inactive user"
         ELSE "Invalid username or password"
    ELSE IF op \in {"refresh", "token_refresh"} /\ status = 401
    THEN "Invalid refresh token"
    ELSE ""

Detail(op, status, path) ==
    IF op = "login" /\ status = 429
    THEN "Too many failed login attempts. Please try again later."
    ELSE IF op = "login" /\ status = 401
    THEN "Invalid username or password"
    ELSE IF op \in {"refresh", "token_refresh"} /\ status = 401
    THEN "Invalid refresh token"
    ELSE ""

Resp(op, ident, tok, status, user, out, path) ==
    [op |-> op, ident |-> ident, tok |-> tok, status |-> status,
     user |-> user, out |-> out, path |-> path,
     detail |-> Detail(op, status, path)]

\* consecutive 401 answers to logins under the account's username, the time
\* of the latest of them, and whether each came more than the window after
\* the one before; a successful login of the account ends the run
NoStreak == [n |-> 0, last |-> NoTime, spaced |-> TRUE]

StreakAfterFailure(u, t) ==
    IF u = NoUser THEN streak
    ELSE [streak EXCEPT ![u] =
             [n |-> IF @.n < Threshold THEN @.n + 1 ELSE @.n,
              last |-> t,
              spaced |-> @.spaced /\ (@.last = NoTime \/ t - @.last > WindowMinutes)]]

StreakAfterSuccess(u) == [streak EXCEPT ![u] = NoStreak]

\* ------------------------------------------------------------------ requests in flight
\* One request per worker process: where it stands (pc), its inputs, the row its
\* session has loaded (user, with snap the failed_login_attempts it read; in
\* a token issue snap is the value of the first clock read) and its answer.
ProcIds == 1..NProcs

Proc(pc, ident, password, tok, user, snap, status, path) ==
    [pc |-> pc, ident |-> ident, password |-> password, tok |-> tok,
     user |-> user, snap |-> snap, status |-> status, path |-> path]

IdleProc == Proc("idle", "", "", NoToken, NoUser, 0, 0, "")

\* ------------------------------------------------------------------ initial state
UsersInit(name) ==
    [u \in UserIds |->
        [exists |-> TRUE,
         username |-> IF u = 100 THEN "alice" ELSE name,
         email |-> EmailOf[u],
         is_active |-> TRUE,
         failed_login_attempts |-> 0,
         last_failed_login |-> NoTime,
         locked_until |-> NoTime,
         last_login |-> NoTime]]

\* ------------------------------------------------------------------ password reset record
\* a row of password_resets: is_used defaults to False, used_at to NULL
PasswordReset(user_id, expires_at) ==
    [user_id |-> user_id, expires_at |-> expires_at,
     is_used |-> FALSE, used_at |-> NoTime]

\* no row
NoReset == PasswordReset(NoUser, NoTime)

is_expired(r, t) == t > r.expires_at

is_valid_ignores_used(r, t) == ~is_expired(r, t)

is_valid(r, t) == ~r.is_used /\ ~is_expired(r, t)

mark_as_used(r, t) == [r EXCEPT !.is_used = TRUE, !.used_at = t]

InitStore(names) ==
    /\ now = 0
    /\ \E name \in names : users = UsersInit(name)
    /\ blacklist = <<>>
    /\ held = {}
    /\ resp = Resp("none", "", NoToken, 0, NoUser, NoToken, "")
    /\ streak = [u \in UserIds |-> NoStreak]
    /\ procs = [p \in ProcIds |-> IdleProc]

InitWith(names) == InitStore(names) /\ reset = NoReset

\* two registered accounts, alice (id 100) and bob (id 101)
Init == InitWith({"bob"})

\* the second account registered as "bob" or under the username "100"
InitToken == InitWith({"bob", "100"})

\* a reset record for alice, created with any expiry
InitReset ==
    /\ InitStore({"bob"})
    /\ \E e \in 0..MaxTime : reset = PasswordReset(100, e)

\* ------------------------------------------------------------------ clock
Tick ==
    /\ now + TickMinutes <= MaxTime
    /\ now' = now + TickMinutes
    /\ UNCHANGED <<users, blacklist, held, resp, streak, procs, reset>>

\* more than the guard's window passes
LongTick ==
    /\ now + LongTickMinutes <= MaxLongTime
    /\ now' = now + LongTickMinutes
    /\ UNCHANGED <<users, blacklist, held, resp, streak, procs, reset>>

\* ------------------------------------------------------------------ POST /login
LoginRefusedRecords(ident) ==
    /\ resp' = Resp("login", ident, NoToken, 429, NoUser, NoToken, "guard")
    /\ users' = record_failed_login(users, ident, now)
    /\ UNCHANGED <<now, blacklist, held, streak, procs, reset>>

\* the guard refused: HTTPException 429 is raised before anything else runs
LoginRefused(ident) ==
    /\ resp' = Resp("login", ident, NoToken, 429, NoUser, NoToken, "guard")
    /\ UNCHANGED <<now, users, blacklist, held, streak, procs, reset>>

\* authenticate_user returned None: the failure is recorded, HTTPException 401
LoginRejected(ident) ==
    LET row == UserByUsernameOrEmail(users, ident)
        verified == row # NoUser /\ users[row].is_active
    IN  /\ \A v \in UserIds : users[v].failed_login_attempts < MaxAttempts
        /\ users' = record_failed_login(users, ident, now)
        /\ streak' = StreakAfterFailure(UserByUsername(users, ident), now)
        /\ resp' = Resp("login", ident, NoToken, 401, NoUser, NoToken,
                        IF verified THEN "password" ELSE "lookup")
        /\ UNCHANGED <<now, blacklist, held, procs, reset>>

\* authenticate_user returned the user (last_login committed): the counter is
\* reset and both tokens are minted; keep: the tokens the client retains
LoginAccepted(ident, u, keep) ==
    LET logged == [users EXCEPT ![u].last_login = now]
        access == create_access_token(u, now)
        refresh == create_refresh_token(u, now)
        kept == {access : k \in keep \cap {"access"}}
                  \cup {refresh : k \in keep \cap {"refresh"}}
    IN  /\ Cardinality(held \cup kept) <= MaxHeld
        /\ users' = reset_failed_login_attempts(logged, u)
        /\ streak' = StreakAfterSuccess(u)
        /\ held' = held \cup kept
        /\ resp' = Resp("login", ident, NoToken, 200, u, access, "ok")
        /\ UNCHANGED <<now, blacklist, procs, reset>>

Login(ident, password, keep) ==
    IF ~validate_login_attempt(users, ident, now)
    THEN keep = {} /\ LoginRefused(ident)
    ELSE IF authenticate_user(users, ident, password) = NoUser
    THEN keep = {} /\ LoginRejected(ident)
    ELSE LoginAccepted(ident, authenticate_user(users, ident, password), keep)

\* ------------------------------------------------------------------ POST /login/refresh
\* LoginService.verify_refresh_token: the user, NoUser for None.  int(sub) of
\* a sub that is no decimal number raises ValueError, which is not caught.
RefreshRaises(tok, t) ==
    JwtDecodes(tok, t) /\ tok.sub # NoSub /\ tok.type = "refresh" /\ ~IsDecimal(tok.sub)

LoginVerifyRefreshToken(us, tok, t) ==
    IF ~JwtDecodes(tok, t) THEN NoUser
    ELSE IF tok.sub = NoSub \/ tok.type # "refresh" THEN NoUser
    ELSE LET u == UserById(us, IntOfSub(tok.sub))
         IN  IF u # NoUser /\ us[u].is_active THEN u ELSE NoUser

RefreshLogin_touches_user(tok, keep) ==
    LET u == LoginVerifyRefreshToken(users, tok, now)
        minted == create_access_token(u, now)
    IN  /\ ~RefreshRaises(tok, now)
        /\ IF u = NoUser
           THEN /\ keep = FALSE
                /\ resp' = Resp("refresh", "", tok, 401, NoUser, NoToken, "invalid")
                /\ UNCHANGED <<held, users>>
           ELSE /\ resp' = Resp("refresh", "", tok, 200, u, minted, "ok")
                /\ held' = IF keep THEN held \cup {minted} ELSE held
                /\ Cardinality(held') <= MaxHeld
                /\ users' = [users EXCEPT ![u].last_login = now]
        /\ UNCHANGED <<now, blacklist, streak, procs, reset>>

RefreshLogin(tok, keep) ==
    LET u == LoginVerifyRefreshToken(users, tok, now)
        minted == create_access_token(u, now)
    IN  /\ IF RefreshRaises(tok, now)
           THEN /\ keep = FALSE
                /\ resp' = Resp("refresh", "", tok, 500, NoUser, NoToken, "raised")
                /\ UNCHANGED held
           ELSE IF u = NoUser
           THEN /\ keep = FALSE
                /\ resp' = Resp("refresh", "", tok, 401, NoUser, NoToken, "invalid")
                /\ UNCHANGED held
           ELSE /\ resp' = Resp("refresh", "", tok, 200, u, minted, "ok")
                /\ held' = IF keep THEN held \cup {minted} ELSE held
                /\ Cardinality(held') <= MaxHeld
        /\ UNCHANGED <<now, users, blacklist, streak, procs, reset>>

\* ------------------------------------------------------------------ the store fails
\* The first query of the handler raises (the database is unreachable).  No
\* handler and no service method of login or refresh catches it: the request
\* ends in the exception, answered 500 by the framework.
LoginStoreFails(ident) ==
    /\ resp' = Resp("login", ident, NoToken, 500, NoUser, NoToken, "raised")
    /\ UNCHANGED <<now, users, blacklist, held, streak, procs, reset>>

\* verify_refresh_token catches JWTError only; the query of line 165 raising
\* is not one
RefreshStoreFails(tok) ==
    /\ JwtDecodes(tok, now)
    /\ tok.sub # NoSub /\ tok.type = "refresh" /\ IsDecimal(tok.sub)
    /\ resp' = Resp("refresh", "", tok, 500, NoUser, NoToken, "raised")
    /\ UNCHANGED <<now, users, blacklist, held, streak, procs, reset>>

\* a signed refresh token whose sub is a username, the form
\* TokenService.verify_refresh_token resolves
UsernameSubToken == Token("alice", "refresh", 0, RefreshExpireMinutes)

\* ------------------------------------------------------------------ POST /token/refresh
TokenVerifyRefreshToken(us, tok, t) ==
    IF ~JwtDecodes(tok, t) THEN NoUser
    ELSE IF tok.sub = NoSub THEN NoUser
    ELSE UserByUsername(us, tok.sub)

\* core.security.create_access_token(data={"sub": username}, expires_delta)
security_create_access_token(sub, t) ==
    Token(sub, "access", t, t + AccessExpireMinutes)

TokenRefresh(tok, keep) ==
    LET u == TokenVerifyRefreshToken(users, tok, now)
        minted == security_create_access_token(users[u].username, now)
    IN  /\ IF u = NoUser
           THEN /\ keep = FALSE
                /\ resp' = Resp("token_refresh", "", tok, 401, NoUser, NoToken, "invalid")
                /\ UNCHANGED held
           ELSE /\ resp' = Resp("token_refresh", "", tok, 200, u, minted, "ok")
                /\ held' = IF keep THEN held \cup {minted} ELSE held
                /\ Cardinality(held') <= MaxHeld
        /\ UNCHANGED <<now, users, blacklist, streak, procs, reset>>

\* ------------------------------------------------------------------ logout
\* core.security.verify_token: the payload of a validly signed, unexpired token
verify_token_ok(tok, t) == JwtDecodes(tok, t)

BlacklistedNever(bl, tok) == FALSE

Blacklisted(bl, tok) == \E k \in 1..Len(bl) : bl[k].token = tok

InsertNeverRaises(bl, tok) == FALSE

\* INSERT into token_blacklist; token is UNIQUE, a second row with the same
\* token raises IntegrityError at commit
InsertRaises(bl, tok) == \E k \in 1..Len(bl) : bl[k].token = tok

BlacklistRow(tok, t) == [token |-> tok, jti |-> tok.sub, blacklisted_at |-> t]

\* LogoutService.logout_user
LogoutUser(tok) ==
    /\ IF ~verify_token_ok(tok, now) \/ tok.sub = NoSub
       THEN /\ resp' = Resp("logout", "", tok, 400, NoUser, NoToken, "invalid")
            /\ UNCHANGED blacklist
       ELSE IF Blacklisted(blacklist, tok)
       THEN /\ resp' = Resp("logout", "", tok, 200, NoUser, NoToken, "existing")
            /\ UNCHANGED blacklist
       ELSE IF InsertRaises(blacklist, tok)
       THEN /\ resp' = Resp("logout", "", tok, 400, NoUser, NoToken, "raised")
            /\ UNCHANGED blacklist
       ELSE /\ resp' = Resp("logout", "", tok, 200, NoUser, NoToken, "inserted")
            /\ blacklist' = Append(blacklist, BlacklistRow(tok, now))
    /\ UNCHANGED <<now, users, held, streak, procs, reset>>

\* ------------------------------------------------------------------ user administration
\* UserService.toggle_user_status
ToggleUserStatus(u, activate) ==
    /\ users[u].exists
    /\ users' = [users EXCEPT ![u].is_active = activate]
    /\ UNCHANGED <<now, blacklist, held, resp, streak, procs, reset>>

\* UserService.remove_user
RemoveUser(u) ==
    /\ users[u].exists
    /\ users' = [users EXCEPT ![u].exists = FALSE]
    /\ UNCHANGED <<now, blacklist, held, resp, streak, procs, reset>>

\* User.lock_account and User.unlock_account on the stored row, committed by
\* the caller
LockAccount(u) ==
    /\ users[u].exists
    /\ users' = lock_account(users, u, now)
    /\ resp' = Resp("lock", "", NoToken, 200, u, NoToken, "")
    /\ UNCHANGED <<now, blacklist, held, streak, procs, reset>>

UnlockAccount(u) ==
    /\ users[u].exists
    /\ users' = unlock_account(users, u)
    /\ resp' = Resp("unlock", "", NoToken, 200, u, NoToken, "")
    /\ UNCHANGED <<now, blacklist, held, streak, procs, reset>>

\* PasswordReset.mark_as_used on the stored row
MarkAsUsed ==
    /\ reset # NoReset
    /\ reset' = mark_as_used(reset, now)
    /\ UNCHANGED <<now, users, blacklist, held, resp, streak, procs>>

\* ------------------------------------------------------------------ POST /login, statement by statement
\* Each database statement is one step; requests of different workers interleave.
LoginBegin(p, ident, password) ==
    /\ procs[p].pc = "idle"
    /\ procs' = [procs EXCEPT ![p] =
          IF validate_login_attempt(users, ident, now)
          THEN Proc("auth", ident, password, NoToken, NoUser, 0, 0, "")
          ELSE Proc("done", ident, password, NoToken, NoUser, 0, 429, "guard")]
    /\ UNCHANGED <<now, users, blacklist, held, resp, streak, reset>>

\* authenticate_user: the SELECT loads the row into the session; on success
\* last_login is committed
LoginAuth(p) ==
    LET ident == procs[p].ident
        row == UserByUsernameOrEmail(users, ident)
        u == authenticate_user(users, ident, procs[p].password)
        snap == IF row = NoUser THEN 0 ELSE users[row].failed_login_attempts
    IN  /\ procs[p].pc = "auth"
        /\ IF u = NoUser
           THEN /\ procs' = [procs EXCEPT ![p].pc = "record", ![p].user = row,
                                          ![p].snap = snap,
                                          ![p].path = IF row # NoUser /\ users[row].is_active
                                                      THEN "password" ELSE "lookup"]
                /\ UNCHANGED users
           ELSE /\ procs' = [procs EXCEPT ![p].pc = "reset", ![p].user = u,
                                          ![p].snap = snap, ![p].path = "ok"]
                /\ users' = [users EXCEPT ![u].last_login = now]
        /\ UNCHANGED <<now, blacklist, held, resp, streak, reset>>

\* record_failed_login: the query returns the row the session already holds,
\* with the attributes it loaded; += 1 and commit write snap + 1
LoginRecord(p) ==
    LET u == UserByUsername(users, procs[p].ident)
        read == IF u = procs[p].user THEN procs[p].snap
                ELSE users[u].failed_login_attempts
    IN  /\ procs[p].pc = "record"
        /\ IF u = NoUser
           THEN UNCHANGED <<users, streak>>
           ELSE /\ read < MaxAttempts
                /\ users' = [users EXCEPT ![u].failed_login_attempts = read + 1,
                                          ![u].last_failed_login = now]
                /\ streak' = StreakAfterFailure(u, now)
        /\ procs' = [procs EXCEPT ![p].pc = "done", ![p].status = 401]
        /\ UNCHANGED <<now, blacklist, held, resp, reset>>

\* reset_failed_login_attempts, then the tokens are minted and returned
LoginReset(p) ==
    /\ procs[p].pc = "reset"
    /\ users' = reset_failed_login_attempts(users, procs[p].user)
    /\ streak' = StreakAfterSuccess(procs[p].user)
    /\ procs' = [procs EXCEPT ![p].pc = "done", ![p].status = 200]
    /\ UNCHANGED <<now, blacklist, held, resp, reset>>

\* ------------------------------------------------------------------ token issue, clock read by clock read
\* create_access_token reads the clock for iat, then again for exp;
\* create_refresh_token reads it for exp, then again for iat.  The clock may
\* advance between the two reads; snap holds the value of the first read.
AccessIat(p, u) ==
    /\ procs[p].pc = "idle"
    /\ users[u].exists
    /\ procs' = [procs EXCEPT ![p] =
          Proc("access_exp", "", "", NoToken, u, now, 0, "access")]
    /\ UNCHANGED <<now, users, blacklist, held, resp, streak, reset>>

AccessExp(p) ==
    /\ procs[p].pc = "access_exp"
    /\ procs' = [procs EXCEPT ![p].pc = "done", ![p].status = 200,
                              ![p].tok = Token(StrOfId(procs[p].user), "",
                                               procs[p].snap,
                                               now + AccessExpireMinutes)]
    /\ UNCHANGED <<now, users, blacklist, held, resp, streak, reset>>

RefreshExp(p, u) ==
    /\ procs[p].pc = "idle"
    /\ users[u].exists
    /\ procs' = [procs EXCEPT ![p] =
          Proc("refresh_iat", "", "", NoToken, u, now + RefreshExpireMinutes,
               0, "refresh")]
    /\ UNCHANGED <<now, users, blacklist, held, resp, streak, reset>>

RefreshIat(p) ==
    /\ procs[p].pc = "refresh_iat"
    /\ procs' = [procs EXCEPT ![p].pc = "done", ![p].status = 200,
                              ![p].tok = Token(StrOfId(procs[p].user), "refresh",
                                               now, procs[p].snap)]
    /\ UNCHANGED <<now, users, blacklist, held, resp, streak, reset>>

\* ------------------------------------------------------------------ logout_user, statement by statement
\* verify_token, the jti, and the SELECT for an existing row
LogoutBegin(p, tok) ==
    /\ procs[p].pc = "idle"
    /\ procs' = [procs EXCEPT ![p] =
          IF ~verify_token_ok(tok, now) \/ tok.sub = NoSub
          THEN Proc("done", "", "", tok, NoUser, 0, 400, "invalid")
          ELSE IF Blacklisted(blacklist, tok)
          THEN Proc("done", "", "", tok, NoUser, 0, 200, "existing")
          ELSE Proc("insert", "", "", tok, NoUser, 0, 0, "")]
    /\ UNCHANGED <<now, users, blacklist, held, resp, streak, reset>>

\* a signed, unexpired token whose payload has neither jti nor sub
SubjectlessToken == Token(NoSub, "access", 0, MaxTime + TickMinutes)

LogoutInsert_keeps_row(p) ==
    /\ procs[p].pc = "insert"
    /\ IF InsertRaises(blacklist, procs[p].tok)
       THEN procs' = [procs EXCEPT ![p].pc = "done", ![p].status = 400,
                                   ![p].path = "raised"]
       ELSE procs' = [procs EXCEPT ![p].pc = "done", ![p].status = 200,
                                   ![p].path = "inserted"]
    /\ blacklist' = Append(blacklist, BlacklistRow(procs[p].tok, now))
    /\ UNCHANGED <<now, users, held, resp, streak, reset>>

\* db.add and db.commit; IntegrityError is caught, rolled back, False returned
LogoutInsert(p) ==
    /\ procs[p].pc = "insert"
    /\ IF InsertRaises(blacklist, procs[p].tok)
       THEN /\ procs' = [procs EXCEPT ![p].pc = "done", ![p].status = 400,
                                      ![p].path = "raised"]
            /\ UNCHANGED blacklist
       ELSE /\ procs' = [procs EXCEPT ![p].pc = "done", ![p].status = 200,
                                      ![p].path = "inserted"]
            /\ blacklist' = Append(blacklist, BlacklistRow(procs[p].tok, now))
    /\ UNCHANGED <<now, users, held, resp, streak, reset>>

\* ------------------------------------------------------------------ specifications
LoginIdents == {"alice", "alice@iris.io", "bob", "nobody"}

\* the login guard: sequential logins, the clock, (de)activation
Next ==
    \/ Tick
    \/ \E i \in LoginIdents, p \in Passwords : Login(i, p, {})
    \/ \E b \in BOOLEAN : ToggleUserStatus(100, b)

Spec == Init /\ [][Next]_vars

\* tokens: logins that succeed, the two refresh endpoints, logout
Presentable == held \cup {NoToken}

NextToken ==
    \/ Tick
    \/ \E k \in SUBSET {"access", "refresh"} : Login("alice", PasswordOf[100], k)
    \/ \E t \in Presentable, k \in BOOLEAN : RefreshLogin(t, k)
    \/ \E t \in Presentable, k \in BOOLEAN : TokenRefresh(t, k)
    \/ \E u \in UserIds, b \in BOOLEAN : ToggleUserStatus(u, b)
    \/ RemoveUser(100)

SpecToken == InitToken /\ [][NextToken]_vars

\* revocation: logins that succeed, logout, the two refresh endpoints
NextLogout ==
    \/ Tick
    \/ \E k \in SUBSET {"access", "refresh"} : Login("alice", PasswordOf[100], k)
    \/ \E t \in Presentable : LogoutUser(t)
    \/ \E t \in Presentable : RefreshLogin(t, FALSE)
    \/ \E t \in Presentable : TokenRefresh(t, FALSE)

SpecLogout == Init /\ [][NextLogout]_vars

\* concurrent logins of one account by its username
NextConcLogin ==
    \/ \E p \in ProcIds, pw \in Passwords : LoginBegin(p, "alice", pw)
    \/ \E p \in ProcIds : LoginAuth(p)
    \/ \E p \in ProcIds : LoginRecord(p)
    \/ \E p \in ProcIds : LoginReset(p)
    \/ Tick

SpecConcLogin == Init /\ [][NextConcLogin]_vars

\* concurrent logouts of the tokens of one login
NextConcLogout ==
    \/ \E k \in SUBSET {"access", "refresh"} : Login("alice", PasswordOf[100], k)
    \/ \E p \in ProcIds, t \in Presentable : LogoutBegin(p, t)
    \/ \E p \in ProcIds : LogoutInsert(p)
    \/ Tick

SpecConcLogout == Init /\ [][NextConcLogout]_vars

\* the guard with the account locked and unlocked by hand
UnlockIdents == {"alice", "alice@iris.io"}

NextUnlock ==
    \/ Tick
    \/ \E i \in UnlockIdents, p \in Passwords : Login(i, p, {})
    \/ LockAccount(100)
    \/ UnlockAccount(100)

SpecUnlock == Init /\ [][NextUnlock]_vars

\* the guard with failures spaced by short and long waits
NextSpaced ==
    \/ Tick
    \/ LongTick
    \/ \E i \in UnlockIdents, p \in Passwords : Login(i, p, {})

SpecSpaced == Init /\ [][NextSpaced]_vars

\* tokens issued while the clock runs
NextIssue ==
    \/ Tick
    \/ \E p \in ProcIds : AccessIat(p, 100)
    \/ \E p \in ProcIds : AccessExp(p)
    \/ \E p \in ProcIds : RefreshExp(p, 100)
    \/ \E p \in ProcIds : RefreshIat(p)

SpecIssue == Init /\ [][NextIssue]_vars

\* login and refresh with a store that may fail and a refresh token whose
\* subject is a username
NextFaults ==
    \/ Tick
    \/ \E i \in UnlockIdents, p \in Passwords, k \in SUBSET {"refresh"} :
          Login(i, p, k)
    \/ \E i \in UnlockIdents : LoginStoreFails(i)
    \/ \E t \in Presentable \cup {UsernameSubToken} : RefreshLogin(t, FALSE)
    \/ \E t \in Presentable : RefreshStoreFails(t)

SpecFaults == Init /\ [][NextFaults]_vars

\* the ledger under every operation that runs beside it
LedgerTokens == Presentable \cup {SubjectlessToken}

NextLedger ==
    \/ \E k \in SUBSET {"refresh"} : Login("alice", PasswordOf[100], k)
    \/ \E p \in ProcIds, t \in LedgerTokens : LogoutBegin(p, t)
    \/ \E p \in ProcIds : LogoutInsert(p)
    \/ \E t \in {NoToken, SubjectlessToken} : LogoutUser(t)
    \/ RemoveUser(100)
    \/ Tick

SpecLedger == Init /\ [][NextLedger]_vars

\* concurrent logins of an account that already has failed logins
NextConcGuess ==
    \/ \E pw \in Passwords : Login("alice", pw, {})
    \/ \E p \in ProcIds, pw \in Passwords : LoginBegin(p, "alice", pw)
    \/ \E p \in ProcIds : LoginAuth(p)
    \/ \E p \in ProcIds : LoginRecord(p)
    \/ \E p \in ProcIds : LoginReset(p)
    \/ Tick

SpecConcGuess == Init /\ [][NextConcGuess]_vars

\* a password reset record, used and expiring
NextReset ==
    \/ Tick
    \/ MarkAsUsed

SpecReset == InitReset /\ [][NextReset]_vars

\* ------------------------------------------------------------------ properties
\* the guard's answer for an account, asked under its username
Allowed(u) == validate_login_attempt(users, users[u].username, now)

\* C1: after 5 consecutive failed logins under an account's username, the
\* latest less than 15 minutes ago, a login under that username is answered
\* 429 whatever the password, never 401.
C1_RateLimitedAfterThreshold ==
    [][\A u \in UserIds, p \in Passwords :
          ( /\ users[u].exists
            /\ streak[u].n >= Threshold
            /\ now - streak[u].last < WindowMinutes
            /\ Login(users[u].username, p, {}) )
          => resp'.status = 429]_vars

C1_Witness ==
    /\ resp.op = "login" /\ resp.ident = "alice" /\ resp.status = 429
    /\ streak[100].n = Threshold
    /\ now - streak[100].last < WindowMinutes

\* C2: a refresh call that presents a token recorded in the blacklist is
\* answered 401.
C2_RevokedTokenRejected ==
    (resp.op \in {"refresh", "token_refresh"} /\ Blacklisted(blacklist, resp.tok))
        => resp.status = 401

\* C3: no refresh endpoint answers 200 to a token whose type is not "refresh".
C3_NoTypeConfusion ==
    (resp.op \in {"refresh", "token_refresh"} /\ resp.status = 200)
        => resp.tok.type = "refresh"

\* C4: a login the guard refuses is answered 429 from the guard branch (no
\* lookup, no password verification) and leaves every account row unchanged.
C4_RefusedChangesNothing ==
    [][\A i \in LoginIdents, p \in Passwords :
          (~validate_login_attempt(users, i, now) /\ Login(i, p, {}))
          => (resp'.status = 429 /\ resp'.path = "guard" /\ users' = users)]_vars

C4_Witness ==
    /\ resp.op = "login" /\ resp.status = 429 /\ resp.path = "guard"
    /\ ~validate_login_attempt(users, resp.ident, now)
    /\ users[100].failed_login_attempts = Threshold

\* C5: the refresh token of a login is accepted by both refresh endpoints
\* while it is unexpired and its account exists and is active.
FromLogin(tok) ==
    /\ tok.type = "refresh"
    /\ IntOfSub(tok.sub) # NoUser
    /\ tok = create_refresh_token(IntOfSub(tok.sub), tok.iat)

AccountUsable(id) == id # NoUser /\ users[id].exists /\ users[id].is_active

C5_LoginRefreshTokenAccepted ==
    [][\A tok \in held, k \in BOOLEAN :
          ( /\ FromLogin(tok) /\ tok.exp >= now
            /\ AccountUsable(IntOfSub(tok.sub))
            /\ (RefreshLogin(tok, k) \/ TokenRefresh(tok, k)) )
          => resp'.status = 200]_vars

\* C6: a refresh call that presents a refresh token and is answered 200 finds
\* the token's subject account existing and active, and mints the access
\* token for an account that exists and is active.
C6_NoRefreshForUnusableAccount ==
    [][\A tok \in held, k \in BOOLEAN :
          ( /\ FromLogin(tok)
            /\ (RefreshLogin(tok, k) \/ TokenRefresh(tok, k))
            /\ resp'.status = 200 )
          => ( /\ AccountUsable(resp'.user)
               /\ AccountUsable(IntOfSub(tok.sub)) )]_vars

\* C7: logging out a valid token that is already in the blacklist answers
\* success and leaves the blacklist as it was, one row for the token.
RowsOf(tok) == {k \in 1..Len(blacklist) : blacklist[k].token = tok}

SucceedsFor(u) ==
    \E i \in LoginIdents, p \in Passwords :
        /\ validate_login_attempt(users, i, now)
        /\ authenticate_user(users, i, p) = u
        /\ Login(i, p, {})

C9_NoLostIncrement ==
    (\A p \in ProcIds : procs[p].pc = "done" /\ procs[p].status = 401)
        => users[100].failed_login_attempts = NProcs

\* C10: the blacklist never holds two rows with the same token.
C10_OneRowPerToken ==
    \A j, k \in 1..Len(blacklist) :
        blacklist[j].token = blacklist[k].token => j = k

C10_Witness ==
    \E p, q \in ProcIds :
        /\ p # q
        /\ procs[p].pc = "done" /\ procs[q].pc = "done"
        /\ procs[p].tok = procs[q].tok
        /\ procs[p].path = "inserted" /\ procs[q].path = "raised"
        /\ Cardinality(RowsOf(procs[p].tok)) = 1

\* C11: right after a login answered 200 the account's counter is 0 and its
\* last_failed_login is cleared; right after unlock_account its counter is 0
\* and its locked_until is cleared; in both cases the guard allows the account.
C11_ResetOnSuccessOrUnlock ==
    [][ /\ \A i \in UnlockIdents, p \in Passwords :
              (Login(i, p, {}) /\ resp'.status = 200)
              => ( /\ users'[resp'.user].failed_login_attempts = 0
                   /\ users'[resp'.user].last_failed_login = NoTime
                   /\ validate_login_attempt(users', users'[resp'.user].username, now') )
        /\ \A u \in UserIds :
              UnlockAccount(u)
              => ( /\ users'[u].failed_login_attempts = 0
                   /\ users'[u].locked_until = NoTime
                   /\ Allowed(u)' ) ]_vars

\* an unlock that took effect: the guard refused the account just before it
C11_Witness ==
    /\ resp.op = "unlock" /\ resp.user = 100
    /\ users[100].failed_login_attempts = 0
    /\ users[100].last_failed_login = now
    /\ streak[100].n = Threshold
    /\ Allowed(100)

\* C12: a login the guard lets through whose identifier matches no account,
\* or matches an inactive account, is answered 401 and changes no account's
\* failed_login_attempts or last_failed_login.
Unmatched(ident) ==
    LET row == UserByUsernameOrEmail(users, ident)
    IN  row = NoUser \/ ~users[row].is_active

C12_UnknownOrInactiveRecordsNothing ==
    [][\A i \in LoginIdents, p \in Passwords :
          ( /\ validate_login_attempt(users, i, now)
            /\ Unmatched(i)
            /\ Login(i, p, {}) )
          => ( /\ resp'.status = 401
               /\ \A u \in UserIds :
                     /\ users'[u].failed_login_attempts = users[u].failed_login_attempts
                     /\ users'[u].last_failed_login = users[u].last_failed_login )]_vars

\* C13: a login under an account's email that fails on the password adds one
\* to the account's counter, and while the guard refuses the account under
\* its username it refuses a login under its email too.
C13_GuardCoversEmail ==
    [][\A u \in UserIds, p \in Passwords :
          Login(EmailOf[u], p, {})
          => ( /\ (resp'.status = 401 /\ resp'.path = "password")
                     => users'[u].failed_login_attempts
                            = users[u].failed_login_attempts + 1
               /\ (users[u].exists /\ ~Allowed(u)) => resp'.status = 429 )]_vars

\* C14: while fewer than 5 logins under an account's username have been
\* answered 401 since its last successful login, the guard allows the account
\* under its username and under its email, whatever the times of the failures.
C14_BelowThresholdNeverRefused ==
    \A u \in UserIds :
        (users[u].exists /\ streak[u].n < Threshold)
        => ( /\ validate_login_attempt(users, users[u].username, now)
             /\ validate_login_attempt(users, users[u].email, now) )

\* four failures, each more than 15 minutes after the one before
C14_Witness ==
    /\ resp.op = "login" /\ resp.ident = "alice" /\ resp.status = 401
    /\ streak[100].n = Threshold - 1
    /\ streak[100].spaced
    /\ streak[100].last = now
    /\ users[100].failed_login_attempts = Threshold - 1
    /\ Allowed(100)

\* C15: an account whose failed logins since its last success each came more
\* than 15 minutes after the one before (no 15-minute window holds two of
\* them, let alone 5) is allowed by the guard.
C15_RefusedOnlyWithinWindow ==
    \A u \in UserIds :
        (users[u].exists /\ streak[u].spaced) => Allowed(u)

\* C16: a login the guard lets through that authenticate_user turns down, be
\* it for an unknown identifier, an inactive account or a wrong password, is
\* answered 401 with the detail "Invalid username or password" and no token.
C16_FailuresIndistinguishable ==
    [][\A i \in LoginIdents, p \in Passwords :
          ( /\ validate_login_attempt(users, i, now)
            /\ authenticate_user(users, i, p) = NoUser
            /\ Login(i, p, {}) )
          => ( /\ resp'.status = 401
               /\ resp'.detail = "Invalid username or password"
               /\ resp'.out = NoToken
               /\ held' = held )]_vars

\* the three cases have been answered: here the inactive account
C16_Witness ==
    /\ resp.op = "login" /\ resp.ident = "alice" /\ resp.status = 401
    /\ resp.path = "lookup"
    /\ ~users[100].is_active
    /\ validate_login_attempt(users, "alice", now)

\* C17: POST /login/refresh with a login's refresh token answers 401 when the
\* token's exp has passed; when the token is unexpired and its account exists
\* and is active it answers 200 with an access token whose iat is the time of
\* the call and whose exp is that time plus the access lifetime.
C17_RefreshExpiryAndFreshTimes ==
    [][\A tok \in held, k \in BOOLEAN :
          (FromLogin(tok) /\ RefreshLogin(tok, k))
          => ( /\ tok.exp < now => resp'.status = 401
               /\ (tok.exp >= now /\ AccountUsable(IntOfSub(tok.sub)))
                     => ( /\ resp'.status = 200
                          /\ resp'.out.iat = now
                          /\ resp'.out.exp = now + AccessExpireMinutes ) )]_vars

\* a refresh later than the login: the minted times are not the token's
C17_Witness ==
    /\ resp.op = "refresh" /\ resp.status = 200
    /\ FromLogin(resp.tok)
    /\ resp.out.iat > resp.tok.iat
    /\ resp.out.exp = resp.out.iat + AccessExpireMinutes
    /\ resp.out.exp # resp.tok.exp

\* C18: POST /login/refresh with a login's refresh token that is unexpired
\* and not in the blacklist, its account existing and active, answers 200,
\* leaves every account row, the blacklist and the client's tokens as they
\* were, and leaves the token acceptable to the next such call.
C18_RefreshWritesNothing ==
    [][\A tok \in held :
          ( /\ FromLogin(tok) /\ tok.exp >= now
            /\ AccountUsable(IntOfSub(tok.sub))
            /\ ~Blacklisted(blacklist, tok)
            /\ RefreshLogin(tok, FALSE) )
          => ( /\ resp'.status = 200
               /\ users' = users
               /\ blacklist' = blacklist
               /\ held' = held
               /\ LoginVerifyRefreshToken(users', tok, now') = IntOfSub(tok.sub) )]_vars

\* after a successful refresh, beside a ledger that holds another token, the
\* refresh token is still one the endpoint accepts
C18_Witness ==
    /\ resp.op = "refresh" /\ resp.status = 200
    /\ FromLogin(resp.tok)
    /\ resp.tok \in held
    /\ Len(blacklist) >= 1
    /\ ~Blacklisted(blacklist, resp.tok)
    /\ LoginVerifyRefreshToken(users, resp.tok, now) = IntOfSub(resp.tok.sub)

\* C19: every issued token has exp - iat equal to the configured lifetime of
\* its kind.
C19_LifetimeExact ==
    \A p \in ProcIds :
        (procs[p].pc = "done" /\ procs[p].path \in {"access", "refresh"})
        => procs[p].tok.exp - procs[p].tok.iat
               = IF procs[p].path = "access" THEN AccessExpireMinutes
                 ELSE RefreshExpireMinutes

\* C20: no login and no refresh ends in an exception: each is answered with
\* one of the defined outcomes, success, 401 or 429, or a store-unavailable
\* error the handler produced.
C20_NothingEscapes ==
    resp.op \in {"login", "refresh"} => resp.path # "raised"

\* C21: the guard refuses an account exactly when User.is_locked() holds for
\* it: locked_until set and in the future.
C21_GuardIffLocked ==
    \A u \in UserIds :
        users[u].exists => (is_locked(users, u, now) <=> ~Allowed(u))

\* C22: a refresh call answered 200 for a login's refresh token mints the
\* access token for the account the refresh token names, with that account's
\* id in decimal as its sub, as login does.
C22_RefreshSubjectIsTokenAccount ==
    [][\A tok \in held, k \in BOOLEAN :
          ( /\ FromLogin(tok)
            /\ (RefreshLogin(tok, k) \/ TokenRefresh(tok, k))
            /\ resp'.status = 200 )
          => ( /\ resp'.user = IntOfSub(tok.sub)
               /\ resp'.out.sub = create_access_token(IntOfSub(tok.sub), now).sub )]_vars

\* C23: a login with a wrong password for an existing, active account the
\* guard allows adds exactly one to that account's counter and sets its
\* last_failed_login to the current time, changes no other row and no
\* last_login; no counter is ever negative, and a counter only decreases to 0
\* and only by a successful login of its account.
WrongPasswordFor(u, ident, password) ==
    /\ u # NoUser
    /\ u = UserByUsernameOrEmail(users, ident)
    /\ users[u].is_active
    /\ Allowed(u)
    /\ validate_login_attempt(users, ident, now)
    /\ ~verify_password(password, u)

C23_FailureCountsOnce ==
    [][\A i \in LoginIdents, p \in Passwords :
          Login(i, p, {})
          => ( /\ \A u \in UserIds :
                     WrongPasswordFor(u, i, p)
                     => ( /\ users'[u].failed_login_attempts
                                = users[u].failed_login_attempts + 1
                          /\ users'[u].last_failed_login = now
                          /\ users'[u].last_login = users[u].last_login
                          /\ \A v \in UserIds \ {u} : users'[v] = users[v] )
               /\ \A u \in UserIds :
                     /\ users'[u].failed_login_attempts >= 0
                     /\ users'[u].failed_login_attempts < users[u].failed_login_attempts
                          => ( /\ users'[u].failed_login_attempts = 0
                               /\ resp'.status = 200 /\ resp'.user = u ) )]_vars

\* C24: of two concurrent logouts of the same valid token, neither is
\* answered with a failure.
C24_ConcurrentLogoutsSucceed ==
    \A p, q \in ProcIds :
        ( /\ p # q
          /\ procs[p].pc = "done" /\ procs[q].pc = "done"
          /\ procs[p].tok = procs[q].tok
          /\ procs[p].path # "invalid" /\ procs[q].path # "invalid" )
        => (procs[p].status = 200 /\ procs[q].status = 200)

\* C25: a logout_user whose token does not verify, whose token has neither
\* jti nor sub, or whose insert fails returns False (400) and leaves the
\* blacklist as it was; every step of every operation keeps the rows the
\* blacklist already has.
LogoutCannotSucceed(tok) == ~verify_token_ok(tok, now) \/ tok.sub = NoSub

C25_FailedLogoutLeavesLedger ==
    [][ /\ \A p \in ProcIds, t \in LedgerTokens :
              (LogoutCannotSucceed(t) /\ LogoutBegin(p, t))
              => (procs'[p].pc = "done" /\ procs'[p].status = 400
                    /\ blacklist' = blacklist)
        /\ \A p \in ProcIds :
              (InsertRaises(blacklist, procs[p].tok) /\ LogoutInsert(p))
              => (procs'[p].status = 400 /\ blacklist' = blacklist)
        /\ \A t \in {NoToken, SubjectlessToken} :
              (LogoutCannotSucceed(t) /\ LogoutUser(t))
              => (resp'.status = 400 /\ blacklist' = blacklist)
        /\ Len(blacklist') >= Len(blacklist)
        /\ \A k \in 1..Len(blacklist) : blacklist'[k] = blacklist[k] ]_vars

\* an insert that failed beside a ledger that kept its rows, and a logout of
\* the token without jti and sub that returned False
C25_Witness ==
    \E p \in ProcIds :
        /\ procs[p].pc = "done" /\ procs[p].path = "raised"
        /\ procs[p].status = 400
        /\ Cardinality(RowsOf(procs[p].tok)) = 1
        /\ resp.op = "logout" /\ resp.tok = SubjectlessToken
        /\ resp.status = 400

\* C26: once an account's counter has reached 5 and the guard allows it again
\* because 15 minutes have passed, one more login with a wrong password makes
\* the guard refuse it at once; the counter falls below 5 again only by a
\* successful login of the account.
C26_ExpiryKeepsCounter ==
    [][\A u \in UserIds :
          /\ \A i \in LoginIdents, p \in Passwords :
                ( /\ users[u].failed_login_attempts >= Threshold
                  /\ WrongPasswordFor(u, i, p)
                  /\ Login(i, p, {}) )
                => ~validate_login_attempt(users', users'[u].username, now')
          /\ ( /\ users[u].failed_login_attempts >= Threshold
               /\ users'[u].failed_login_attempts < Threshold )
                => (resp'.op = "login" /\ resp'.status = 200 /\ resp'.user = u
                      /\ users'[u].failed_login_attempts = 0) ]_vars

\* C27: no request verifies a wrong password for an account while 5 failed
\* logins within the last 15 minutes are recorded for it, so that such a
\* verification is never the sixth within the window.
C27_NoVerificationOnceLocked ==
    [][\A p \in ProcIds :
          (LoginAuth(p) /\ procs'[p].path = "password")
          => Allowed(procs'[p].user)]_vars

\* C28: is_valid() holds only for a record that is unused and whose
\* expires_at the clock has not passed; mark_as_used() leaves it not valid,
\* and a record that is not valid is not valid after any step.
C28_ResetTokenSingleUse ==
    /\ [](is_valid(reset, now) => (~reset.is_used /\ now <= reset.expires_at))
    /\ [][ /\ MarkAsUsed => ~is_valid(reset', now')
           /\ ~is_valid(reset, now) => ~is_valid(reset', now') ]_vars

\* used before its expiry, and not valid
C28_Witness ==
    /\ reset.is_used
    /\ reset.used_at # NoTime
    /\ now <= reset.expires_at
    /\ ~is_valid(reset, now)

====
